---------------------------- MODULE Spec2Model ----------------------------
(***************************************************************************)
(* Model of scripts/extract_schemas.py: the conversion of OpenAPI schema   *)
(* definitions to JSON Schema (convert_property,                           *)
(* convert_openapi_to_jsonschema), the output-filename transform, and the  *)
(* run of main / extract_schemas over a Definitions Table.                 *)
(*                                                                         *)
(* Mappings (Python dicts) are functions over a set of string keys.  The   *)
(* `properties` mapping, whose key order is observable, is a sequence of   *)
(* [name, def] entries with pairwise distinct names.  Schema names and     *)
(* file names are sequences of one-character strings.                      *)
(***************************************************************************)
EXTENDS Integers, Sequences, FiniteSets, TLC

VARIABLES
    pc,             \* position of the program (or of the function under study)
    arg,            \* argument of the pure function under study
    ret,            \* its return value
    swaggerExists,  \* args.swagger.exists()
    swagger,        \* parsed content of the source document
    schemas,        \* args.schemas: [none |-> TRUE] or [none |-> FALSE, list |-> names]
    definitions,    \* local of extract_schemas
    schema_names,   \* local of extract_schemas
    idx,            \* position of the for loop in schema_names
    extracted,      \* local counter of extract_schemas
    dirExists,      \* whether output_dir exists
    files,          \* content of output_dir: file name -> content
    stdout,         \* lines printed to standard output
    stderr,         \* lines printed to the error stream
    exitStatus,     \* process exit status, Running until the process ends
    fs0,            \* history: the file system at program start
    written         \* history: names of the files opened for writing

vars == << pc, arg, ret, swaggerExists, swagger, schemas, definitions,
           schema_names, idx, extracted, dirExists, files, stdout, stderr,
           exitStatus, fs0, written >>

runVars == << swaggerExists, swagger, schemas, definitions, schema_names, idx,
              extracted, dirExists, files, stdout, stderr, exitStatus, fs0,
              written >>

-----------------------------------------------------------------------------
(* Bounds *)

MaxDepth == 2       \* levels of nested `items` in the property inputs
MaxProps == 2       \* entries of a `properties` mapping in the schema inputs
MaxNameLen == 3     \* length of the names fed to the filename transform
MaxNames == 3       \* length of an explicit --schemas list

-----------------------------------------------------------------------------
(* Generic helpers *)

None == "None"

Running == -1

EmptyMap == [k \in {} |-> k]

Range(s) == { s[i] : i \in 1..Len(s) }

RECURSIVE Concat(_)
Concat(ss) == IF ss = << >> THEN << >> ELSE Head(ss) \o Concat(Tail(ss))

(* unguarded variant: result[k] = prop.get(k) *)
CopyIfPresent_unguarded(result, prop, k) ==
    (k :> (IF k \in DOMAIN prop THEN prop[k] ELSE None)) @@ result

(* result[k] = prop[k] guarded by `if k in prop` *)
CopyIfPresent(result, prop, k) ==
    IF k \in DOMAIN prop THEN (k :> prop[k]) @@ result ELSE result

-----------------------------------------------------------------------------
(* convert_property *)

RECURSIVE convert_property(_)

(* variant that keeps the input's own description next to a $ref *)
convert_property_stub_keepDescription(prop) ==
    ("type" :> "object" @@
     "description" :> (IF "description" \in DOMAIN prop
                       THEN prop["description"]
                       ELSE "Reference: " \o prop["$ref"]))

(* the early return for a $ref *)
convert_property_stub(prop) ==
    ("type" :> "object" @@ "description" :> ("Reference: " \o prop["$ref"]))

(* variant that converts items whatever the type *)
handle_arrays_anyType(result, prop) ==
    IF "items" \in DOMAIN prop
    THEN ("items" :> convert_property(prop["items"])) @@ result
    ELSE result

(* the `Handle arrays` step *)
handle_arrays(result, prop) ==
    IF /\ "type" \in DOMAIN prop
       /\ prop["type"] = "array"
       /\ "items" \in DOMAIN prop
    THEN ("items" :> convert_property(prop["items"])) @@ result
    ELSE result

convert_property(prop) ==
    IF "$ref" \in DOMAIN prop
    THEN convert_property_stub(prop)
    ELSE LET r1 == CopyIfPresent(EmptyMap, prop, "type")
             r2 == CopyIfPresent(r1, prop, "description")
             r3 == CopyIfPresent(r2, prop, "example")
             r4 == handle_arrays(r3, prop)
             r5 == CopyIfPresent(r4, prop, "format")
             r6 == CopyIfPresent(r5, prop, "enum")
         IN  r6

-----------------------------------------------------------------------------
(* convert_openapi_to_jsonschema *)

DRAFT07 == "http://json-schema.org/draft-07/schema#"

(* variant that fills the new mapping in reverse order *)
convert_properties_reversed(props) ==
    [i \in 1..Len(props) |->
        [name |-> props[Len(props) + 1 - i].name,
         def  |-> convert_property(props[Len(props) + 1 - i].def)]]

(* the loop over openapi_schema["properties"].items(), in mapping order *)
convert_properties(props) ==
    [i \in 1..Len(props) |->
        [name |-> props[i].name, def |-> convert_property(props[i].def)]]

(* variant: json_schema["required"] = openapi_schema.get("required", []) *)
copy_required_defaulted(json_schema, openapi_schema) ==
    ("required" :> (IF "required" \in DOMAIN openapi_schema
                    THEN openapi_schema["required"] ELSE << >>)) @@ json_schema

(* the `Copy required fields` step *)
copy_required(json_schema, openapi_schema) ==
    CopyIfPresent(json_schema, openapi_schema, "required")

convert_openapi_to_jsonschema(openapi_schema) ==
    LET j0 == ("$schema" :> DRAFT07 @@
               "type" :> (IF "type" \in DOMAIN openapi_schema
                          THEN openapi_schema["type"] ELSE "object"))
        j1 == CopyIfPresent(j0, openapi_schema, "title")
        j2 == CopyIfPresent(j1, openapi_schema, "description")
        j3 == IF "properties" \in DOMAIN openapi_schema
              THEN ("properties" :>
                        convert_properties(openapi_schema["properties"])) @@ j2
              ELSE j2
        j4 == copy_required(j3, openapi_schema)
    IN  j4

-----------------------------------------------------------------------------
(* The output-filename transform of extract_schemas *)

UpperChars == <<"A","B","C","D","E","F","G","H","I","J","K","L","M",
                "N","O","P","Q","R","S","T","U","V","W","X","Y","Z">>
LowerChars == <<"a","b","c","d","e","f","g","h","i","j","k","l","m",
                "n","o","p","q","r","s","t","u","v","w","x","y","z">>

isupper(c) == \E i \in 1..Len(UpperChars) : UpperChars[i] = c

lower(c) ==
    IF isupper(c)
    THEN LowerChars[CHOOSE i \in 1..Len(UpperChars) : UpperChars[i] = c]
    ELSE c

RECURSIVE lstrip(_, _)
lstrip(s, ch) ==
    IF s # << >> /\ Head(s) = ch THEN lstrip(Tail(s), ch) ELSE s

output_name(schema_name) ==
    lstrip(Concat([i \in 1..Len(schema_name) |->
                      IF isupper(schema_name[i])
                      THEN <<"_", lower(schema_name[i])>>
                      ELSE <<schema_name[i]>>]),
           "_")

output_file(schema_name) == output_name(schema_name) \o <<".","j","s","o","n">>

(* json.dump(json_schema, f, indent=2) *)
json_dump(json_schema) == [indent |-> 2, doc |-> json_schema]

-----------------------------------------------------------------------------
(* Bounded input domains *)

BaseKeys == {"$ref", "type", "description", "example", "format", "enum",
             "nullable"}

TypeVals == {"string", "array"}

RefVals == {"#/definitions/account", "#/definitions/tag"}

(* a Property Object with key set S (without items), type t and $ref r *)
BaseOf(S, t, r) ==
    [k \in S |->
        CASE k = "$ref"        -> r
          [] k = "type"        -> t
          [] k = "description" -> "d"
          [] k = "example"     -> "e"
          [] k = "format"      -> "f"
          [] k = "enum"        -> <<"a", "b">>
          [] OTHER             -> "true"]

Bases == { BaseOf(S, t, r) : S \in SUBSET BaseKeys, t \in TypeVals, r \in RefVals }

(* the bases used below the top level *)
NestBases == { BaseOf(S, t, "#/definitions/account") :
                  S \in {{"type"}, {"$ref"}, {"$ref", "type"}, {}},
                  t \in TypeVals }

RECURSIVE ItemsAt(_)
ItemsAt(d) ==
    IF d = 0 THEN NestBases
    ELSE ItemsAt(d - 1) \cup
         { ("items" :> i) @@ b : b \in NestBases, i \in ItemsAt(d - 1) }

PropertyObjects ==
    Bases \cup { ("items" :> i) @@ b : b \in Bases, i \in ItemsAt(MaxDepth - 1) }

-----------------------------------------------------------------------------
(* The pure functions, applied to one input *)

RunIdle ==
    /\ swaggerExists = FALSE
    /\ swagger = EmptyMap
    /\ schemas = [none |-> TRUE]
    /\ definitions = EmptyMap
    /\ schema_names = << >>
    /\ idx = 0
    /\ extracted = 0
    /\ dirExists = FALSE
    /\ files = EmptyMap
    /\ stdout = << >>
    /\ stderr = << >>
    /\ exitStatus = Running
    /\ fs0 = [dir |-> FALSE, files |-> EmptyMap]
    /\ written = {}

InitProperty ==
    /\ pc = "convert_property"
    /\ arg \in PropertyObjects
    /\ ret = None
    /\ RunIdle

CallConvertProperty ==
    /\ pc = "convert_property"
    /\ ret' = convert_property(arg)
    /\ pc' = "return"
    /\ UNCHANGED << arg, runVars >>

SpecProperty == InitProperty /\ [][CallConvertProperty]_vars

-----------------------------------------------------------------------------
(* Relational description of a converted Property Object, level by level *)

CopyKeys == {"type", "description", "example", "format", "enum"}

IsStubOf(in, out) ==
    /\ DOMAIN out = {"type", "description"}
    /\ out["type"] = "object"
    /\ out["description"] = "Reference: " \o in["$ref"]

CopiesAgree(in, out) ==
    \A k \in CopyKeys :
        /\ k \in DOMAIN out <=> k \in DOMAIN in
        /\ k \in DOMAIN in => out[k] = in[k]

HasArrayItems(in) ==
    /\ "type" \in DOMAIN in
    /\ in["type"] = "array"
    /\ "items" \in DOMAIN in

RECURSIVE ItemsAgree(_, _)
ItemsAgree(in, out) ==
    IF "$ref" \in DOMAIN in
    THEN IsStubOf(in, out)
    ELSE /\ "items" \in DOMAIN out <=> HasArrayItems(in)
         /\ HasArrayItems(in) =>
               /\ out["items"] = convert_property(in["items"])
               /\ ItemsAgree(in["items"], out["items"])

(* number of nested array levels that the conversion descends through *)
RECURSIVE ArrayDepth(_)
ArrayDepth(in) ==
    IF "$ref" \notin DOMAIN in /\ HasArrayItems(in)
    THEN 1 + ArrayDepth(in["items"]) ELSE 0

\* C1: a Property Object with a $ref key converts to exactly
\* {type: "object", description: "Reference: " + ref}; no other key of the
\* input influences or appears in the result.
C1_RefStub ==
    (pc = "return" /\ "$ref" \in DOMAIN arg) => IsStubOf(arg, ret)

C1_Witness ==
    /\ pc = "return"
    /\ {"$ref", "type", "description", "example", "format", "enum", "items"}
           \subseteq DOMAIN arg
    /\ arg["type"] = "array"
    /\ arg["$ref"] = "#/definitions/tag"
    /\ ret = [type |-> "object", description |-> "Reference: #/definitions/tag"]

\* C2: without $ref, each of type, description, example, format, enum is in
\* the output iff it is in the input, and then carries the input's value.
C2_CopiedKeys ==
    (pc = "return" /\ "$ref" \notin DOMAIN arg) => CopiesAgree(arg, ret)

C2_Witness ==
    /\ pc = "return"
    /\ "$ref" \notin DOMAIN arg
    /\ DOMAIN arg = {"type", "example", "enum", "nullable"}
    /\ DOMAIN ret = {"type", "example", "enum"}
    /\ ret["enum"] = <<"a", "b">>

\* C3: without $ref, the output has items iff the input's type is "array"
\* and the input has items; the output's items is then the conversion of the
\* input's items, at every nesting depth, a nested $ref becoming the stub.
C3_ItemsRecursive ==
    (pc = "return" /\ "$ref" \notin DOMAIN arg) => ItemsAgree(arg, ret)

C3_Witness ==
    /\ pc = "return"
    /\ "$ref" \notin DOMAIN arg
    /\ ArrayDepth(arg) = 2
    /\ "$ref" \in DOMAIN arg["items"]["items"]
    /\ ret["items"]["items"] = [type |-> "object",
                description |-> "Reference: #/definitions/account"]

-----------------------------------------------------------------------------
(* convert_openapi_to_jsonschema applied to one Schema Object *)

SchemaBaseKeys == {"type", "title", "description", "required", "example"}

SchemaTypeVals == {"object", "string"}

SchemaBaseOf(S, t) ==
    [k \in S |->
        CASE k = "type"        -> t
          [] k = "title"       -> "T"
          [] k = "description" -> "D"
          [] k = "required"    -> <<"id">>
          [] OTHER             -> "x"]

PropNames == {"id", "name", "tags"}

PropDefs ==
    { [type |-> "string"],
      [type |-> "string", nullable |-> "true"],
      ("$ref" :> "#/definitions/tag" @@ "type" :> "array"),
      [type |-> "array", items |-> ("$ref" :> "#/definitions/tag")] }

(* the ordered mappings name -> Property Object with at most n entries *)
RECURSIVE PropertiesUpTo(_)
PropertiesUpTo(n) ==
    IF n = 0 THEN { << >> }
    ELSE PropertiesUpTo(n - 1) \cup
         { Append(ps, [name |-> nm, def |-> d]) :
             ps \in { q \in PropertiesUpTo(n - 1) : Len(q) = n - 1 },
             nm \in PropNames, d \in PropDefs }

HasDistinctNames(ps) ==
    \A i, j \in 1..Len(ps) : ps[i].name = ps[j].name => i = j

PropertiesMappings == { ps \in PropertiesUpTo(MaxProps) : HasDistinctNames(ps) }

SchemaBases ==
    { SchemaBaseOf(S, t) : S \in SUBSET SchemaBaseKeys, t \in SchemaTypeVals }

SchemaObjects ==
    SchemaBases \cup
    { ("properties" :> ps) @@ b : b \in SchemaBases, ps \in PropertiesMappings }

InitSchema ==
    /\ pc = "convert_openapi_to_jsonschema"
    /\ arg \in SchemaObjects
    /\ ret = None
    /\ RunIdle

CallConvertSchema ==
    /\ pc = "convert_openapi_to_jsonschema"
    /\ ret' = convert_openapi_to_jsonschema(arg)
    /\ pc' = "return"
    /\ UNCHANGED << arg, runVars >>

SpecSchema == InitSchema /\ [][CallConvertSchema]_vars

OptionalSchemaKeys == {"title", "description", "properties", "required"}

\* C4: the converted schema always has $schema = the draft-07 identifier and
\* type = the input's type, or "object" when the input has none; each of
\* title, description, properties, required is in the output iff it is in
\* the input; the output has no other key.
C4_SchemaKeys ==
    pc = "return" =>
        /\ {"$schema", "type"} \subseteq DOMAIN ret
        /\ ret["$schema"] = "http://json-schema.org/draft-07/schema#"
        /\ ret["type"] = IF "type" \in DOMAIN arg THEN arg["type"] ELSE "object"
        /\ \A k \in OptionalSchemaKeys : k \in DOMAIN ret <=> k \in DOMAIN arg
        /\ DOMAIN ret \subseteq {"$schema", "type"} \cup OptionalSchemaKeys

C4_Witness ==
    /\ pc = "return"
    /\ DOMAIN arg = {"title", "properties", "example"}
    /\ DOMAIN ret = {"$schema", "type", "title", "properties"}
    /\ ret["type"] = "object"

\* C5: the output's properties mapping has the key set and key order of the
\* input's, and the value under each name is convert_property of the input
\* value under that name.
C5_PropertiesOrder ==
    (pc = "return" /\ "properties" \in DOMAIN arg) =>
        LET ip == arg["properties"]
            op == ret["properties"]
        IN  /\ Len(op) = Len(ip)
            /\ \A i \in 1..Len(ip) :
                  /\ op[i].name = ip[i].name
                  /\ op[i].def = convert_property(ip[i].def)

C5_Witness ==
    /\ pc = "return"
    /\ "properties" \in DOMAIN arg
    /\ Len(arg["properties"]) = 2
    /\ arg["properties"][1].name = "tags"
    /\ arg["properties"][2].name = "id"
    /\ "$ref" \in DOMAIN arg["properties"][1].def
    /\ arg["properties"][2].def = [type |-> "string", nullable |-> "true"]
    /\ ret["properties"][1] =
          [name |-> "tags",
           def |-> [type |-> "object",
                    description |-> "Reference: #/definitions/tag"]]
    /\ ret["properties"][2] = [name |-> "id", def |-> [type |-> "string"]]

-----------------------------------------------------------------------------
(* The filename transform applied to one schema name *)

NameAlphabet == {"a", "B", "_", "2"}

RECURSIVE NamesUpTo(_)
NamesUpTo(n) ==
    IF n = 0 THEN { << >> }
    ELSE NamesUpTo(n - 1) \cup
         { Append(s, c) : s \in { q \in NamesUpTo(n - 1) : Len(q) = n - 1 },
                          c \in NameAlphabet }

DefaultSchemaNames ==
    << <<"a","c","c","o","u","n","t">>,
       <<"s","t","a","t","u","s">>,
       <<"i","n","s","t","a","n","c","e">>,
       <<"a","c","c","o","u","n","t","R","e","l","a","t","i","o","n","s","h","i","p">>,
       <<"p","o","l","l">>,
       <<"n","o","t","i","f","i","c","a","t","i","o","n">>,
       <<"l","i","s","t">>,
       <<"f","i","l","t","e","r">>,
       <<"f","i","l","t","e","r","V","2">>,
       <<"c","o","n","v","e","r","s","a","t","i","o","n">>,
       <<"s","c","h","e","d","u","l","e","d","S","t","a","t","u","s">>,
       <<"m","e","d","i","a","A","t","t","a","c","h","m","e","n","t">>,
       <<"e","m","o","j","i">>,
       <<"t","a","g">>,
       <<"c","a","r","d">>,
       <<"a","p","p","l","i","c","a","t","i","o","n">> >>

InitName ==
    /\ pc = "output_name"
    /\ arg \in NamesUpTo(MaxNameLen) \cup Range(DefaultSchemaNames)
    /\ ret = None
    /\ RunIdle

CallOutputName ==
    /\ pc = "output_name"
    /\ ret' = output_name(arg)
    /\ pc' = "return"
    /\ UNCHANGED << arg, runVars >>

SpecName == InitName /\ [][CallOutputName]_vars

(* every upper-case letter replaced by an underscore and its lower case *)
Underscored(name) ==
    Concat([i \in 1..Len(name) |->
               IF isupper(name[i]) THEN <<"_", lower(name[i])>>
               ELSE <<name[i]>>])

(* the transform as stated: only an underscore the transform produced at the
   front is removed *)
StatedTransform(name) ==
    IF name # << >> /\ isupper(name[1])
    THEN Tail(Underscored(name)) ELSE Underscored(name)

HasNoUpper(name) == \A i \in 1..Len(name) : ~isupper(name[i])

\* C6: the filename transform replaces each upper-case letter by an
\* underscore and its lower-case form and removes a leading underscore only
\* when the transform produced it; accountRelationship gives
\* account_relationship, filterV2 gives filter_v2, and a name without
\* upper-case letters (also one beginning with an underscore) is unchanged.
C6_NameTransform ==
    pc = "return" =>
        /\ ret = StatedTransform(arg)
        /\ HasNoUpper(arg) => ret = arg
        /\ arg = DefaultSchemaNames[4] =>
              ret = <<"a","c","c","o","u","n","t","_",
                      "r","e","l","a","t","i","o","n","s","h","i","p">>
        /\ arg = DefaultSchemaNames[9] =>
              ret = <<"f","i","l","t","e","r","_","v","2">>

-----------------------------------------------------------------------------
(* The run of the program: main, then extract_schemas *)

n_account == DefaultSchemaNames[1]
n_Account == <<"A","c","c","o","u","n","t">>
n_filterV2 == DefaultSchemaNames[9]

NamePool == {n_account, n_Account, n_filterV2}

RunSchemas ==
    { [type |-> "object",
       properties |-> << [name |-> "id", def |-> [type |-> "string"]] >>],
      [title |-> "T",
       properties |-> << [name |-> "tags",
                          def |-> [type |-> "array",
                                   items |-> ("$ref" :> "#/definitions/tag")]] >>] }

(* the Definitions Tables over NamePool *)
Tables ==
    UNION { [D -> RunSchemas] : D \in SUBSET NamePool }

(* the source documents: with a definitions mapping, or without one *)
Documents ==
    { [swagger |-> "2.0", definitions |-> t] : t \in Tables } \cup
    { [swagger |-> "2.0"] }

RECURSIVE NameListsUpTo(_)
NameListsUpTo(n) ==
    IF n = 0 THEN { << >> }
    ELSE NameListsUpTo(n - 1) \cup
         { Append(l, nm) : l \in { q \in NameListsUpTo(n - 1) : Len(q) = n - 1 },
                           nm \in NamePool }

(* --schemas has nargs='+': absent (None) or a non-empty list *)
SchemasArgs ==
    { [none |-> TRUE] } \cup
    { [none |-> FALSE, list |-> l] : l \in NameListsUpTo(MaxNames) \ { << >> } }

StaleContent == [indent |-> 2, doc |-> ("$schema" :> "stale")]

InitialFileSystems ==
    { [dir |-> FALSE, files |-> EmptyMap],
      [dir |-> TRUE,  files |-> EmptyMap],
      [dir |-> TRUE,  files |-> (output_file(n_account) :> StaleContent)] }

Init ==
    /\ pc = "main"
    /\ arg = None
    /\ ret = None
    /\ swaggerExists \in BOOLEAN
    /\ swagger \in (IF swaggerExists THEN Documents ELSE { EmptyMap })
    /\ schemas \in SchemasArgs
    /\ definitions = EmptyMap
    /\ schema_names = << >>
    /\ idx = 0
    /\ extracted = 0
    /\ fs0 \in InitialFileSystems
    /\ dirExists = fs0.dir
    /\ files = fs0.files
    /\ stdout = << >>
    /\ stderr = << >>
    /\ exitStatus = Running
    /\ written = {}

(* variant of the pre-flight check that forgets sys.exit(1) *)
MainSourceMissing_noExit ==
    /\ pc = "main"
    /\ ~swaggerExists
    /\ stderr' = Append(stderr, [kind |-> "error"])
    /\ pc' = "load"
    /\ UNCHANGED << arg, ret, swaggerExists, swagger, schemas, definitions,
                    schema_names, idx, extracted, dirExists, files, stdout,
                    exitStatus, fs0, written >>

(* main: `if not args.swagger.exists()`: message, sys.exit(1) *)
MainSourceMissing ==
    /\ pc = "main"
    /\ ~swaggerExists
    /\ stderr' = Append(stderr, [kind |-> "error"])
    /\ exitStatus' = 1
    /\ pc' = "exit"
    /\ UNCHANGED << arg, ret, swaggerExists, swagger, schemas, definitions,
                    schema_names, idx, extracted, dirExists, files, stdout,
                    fs0, written >>

(* main: the source exists, extract_schemas is called *)
MainCallExtract ==
    /\ pc = "main"
    /\ swaggerExists
    /\ pc' = "load"
    /\ UNCHANGED << arg, ret, runVars >>

(* extract_schemas: load the document, take definitions, default the names *)
LoadSwagger ==
    /\ pc = "load"
    /\ definitions' = IF "definitions" \in DOMAIN swagger
                      THEN swagger["definitions"] ELSE EmptyMap
    /\ schema_names' = IF schemas.none THEN DefaultSchemaNames ELSE schemas.list
    /\ pc' = "mkdir"
    /\ UNCHANGED << arg, ret, swaggerExists, swagger, schemas, idx, extracted,
                    dirExists, files, stdout, stderr, exitStatus, fs0, written >>

(* extract_schemas: output_dir.mkdir(parents=True, exist_ok=True); extracted = 0 *)
MakeOutputDir ==
    /\ pc = "mkdir"
    /\ dirExists' = TRUE
    /\ extracted' = 0
    /\ idx' = 1
    /\ pc' = "loop"
    /\ UNCHANGED << arg, ret, swaggerExists, swagger, schemas, definitions,
                    schema_names, files, stdout, stderr, exitStatus, fs0,
                    written >>

(* variant that counts a schema only when its file is new in this run *)
ExtractFound_countNewFiles ==
    /\ pc = "loop"
    /\ idx <= Len(schema_names)
    /\ schema_names[idx] \in DOMAIN definitions
    /\ LET schema_name == schema_names[idx]
           json_schema == convert_openapi_to_jsonschema(definitions[schema_name])
       IN  /\ files' = (output_file(schema_name) :> json_dump(json_schema)) @@ files
           /\ written' = written \cup { output_file(schema_name) }
           /\ stdout' = Append(stdout, [kind |-> "extracted",
                                        schema_name |-> schema_name,
                                        output_file |-> output_file(schema_name)])
           /\ extracted' = IF output_file(schema_name) \in written
                           THEN extracted ELSE extracted + 1
    /\ idx' = idx + 1
    /\ UNCHANGED << pc, arg, ret, swaggerExists, swagger, schemas, definitions,
                    schema_names, dirExists, stderr, exitStatus, fs0 >>

(* variant that does not overwrite a file that is already there *)
ExtractFound_keepExisting ==
    /\ pc = "loop"
    /\ idx <= Len(schema_names)
    /\ schema_names[idx] \in DOMAIN definitions
    /\ LET schema_name == schema_names[idx]
           json_schema == convert_openapi_to_jsonschema(definitions[schema_name])
       IN  /\ files' = IF output_file(schema_name) \in DOMAIN files
                       THEN files
                       ELSE (output_file(schema_name) :> json_dump(json_schema))
                                @@ files
           /\ written' = written \cup { output_file(schema_name) }
           /\ stdout' = Append(stdout, [kind |-> "extracted",
                                        schema_name |-> schema_name,
                                        output_file |-> output_file(schema_name)])
    /\ extracted' = extracted + 1
    /\ idx' = idx + 1
    /\ UNCHANGED << pc, arg, ret, swaggerExists, swagger, schemas, definitions,
                    schema_names, dirExists, stderr, exitStatus, fs0 >>

(* loop body, name found: convert, write the file, report, count *)
ExtractFound ==
    /\ pc = "loop"
    /\ idx <= Len(schema_names)
    /\ schema_names[idx] \in DOMAIN definitions
    /\ LET schema_name == schema_names[idx]
           json_schema == convert_openapi_to_jsonschema(definitions[schema_name])
       IN  /\ files' = (output_file(schema_name) :> json_dump(json_schema)) @@ files
           /\ written' = written \cup { output_file(schema_name) }
           /\ stdout' = Append(stdout, [kind |-> "extracted",
                                        schema_name |-> schema_name,
                                        output_file |-> output_file(schema_name)])
    /\ extracted' = extracted + 1
    /\ idx' = idx + 1
    /\ UNCHANGED << pc, arg, ret, swaggerExists, swagger, schemas, definitions,
                    schema_names, dirExists, stderr, exitStatus, fs0 >>

(* variant that gives up at the first missing schema *)
ExtractNotFound_abort ==
    /\ pc = "loop"
    /\ idx <= Len(schema_names)
    /\ schema_names[idx] \notin DOMAIN definitions
    /\ stderr' = Append(stderr, [kind |-> "not_found",
                                 schema_name |-> schema_names[idx]])
    /\ exitStatus' = 1
    /\ pc' = "exit"
    /\ UNCHANGED << arg, ret, swaggerExists, swagger, schemas, definitions,
                    schema_names, idx, extracted, dirExists, files, stdout,
                    fs0, written >>

(* loop body, name not found: warning on the error stream *)
ExtractNotFound ==
    /\ pc = "loop"
    /\ idx <= Len(schema_names)
    /\ schema_names[idx] \notin DOMAIN definitions
    /\ stderr' = Append(stderr, [kind |-> "not_found",
                                 schema_name |-> schema_names[idx]])
    /\ idx' = idx + 1
    /\ UNCHANGED << pc, arg, ret, swaggerExists, swagger, schemas, definitions,
                    schema_names, extracted, dirExists, files, stdout,
                    exitStatus, fs0, written >>

(* after the loop: the summary line; extract_schemas and main return *)
PrintSummary ==
    /\ pc = "loop"
    /\ idx > Len(schema_names)
    /\ stdout' = Append(stdout, [kind |-> "summary", extracted |-> extracted])
    /\ exitStatus' = 0
    /\ pc' = "exit"
    /\ UNCHANGED << arg, ret, swaggerExists, swagger, schemas, definitions,
                    schema_names, idx, extracted, dirExists, files, stderr,
                    fs0, written >>

Next ==
    \/ MainSourceMissing
    \/ MainCallExtract
    \/ LoadSwagger
    \/ MakeOutputDir
    \/ ExtractFound
    \/ ExtractNotFound
    \/ PrintSummary

Spec == Init /\ [][Next]_vars

-----------------------------------------------------------------------------
(* Properties of the run *)

(* the Definitions Table of the source document *)
Table == IF "definitions" \in DOMAIN swagger THEN swagger["definitions"]
         ELSE EmptyMap

(* the schemaNames the run works on *)
Requested == IF schemas.none THEN DefaultSchemaNames ELSE schemas.list

Finished == pc = "exit" /\ exitStatus = 0

InLoop == pc = "loop" \/ Finished

(* positions among the first n entries whose name is in the table *)
FoundIdx(n) == { i \in 1..n : Requested[i] \in DOMAIN Table }

MissingIdx(n) == { i \in 1..n : Requested[i] \notin DOMAIN Table }

Max(S) == CHOOSE m \in S : \A k \in S : k <= m

LinesOfKind(lines, kind) == { i \in 1..Len(lines) : lines[i].kind = kind }

(* the warnings for the missing names among the first n entries, in order *)
RECURSIVE WarningsFor(_)
WarningsFor(n) ==
    IF n = 0 THEN << >>
    ELSE IF n \in MissingIdx(n)
         THEN Append(WarningsFor(n - 1),
                     [kind |-> "not_found", schema_name |-> Requested[n]])
         ELSE WarningsFor(n - 1)

(* the success notices for the found names among the first n entries *)
RECURSIVE NoticesFor(_)
NoticesFor(n) ==
    IF n = 0 THEN << >>
    ELSE IF n \in FoundIdx(n)
         THEN Append(NoticesFor(n - 1),
                     [kind |-> "extracted", schema_name |-> Requested[n],
                      output_file |-> output_file(Requested[n])])
         ELSE NoticesFor(n - 1)

FoundFiles(n) == { output_file(Requested[i]) : i \in FoundIdx(n) }

\* C7 (as stated): after a completed run the number of distinct output files
\* written equals the number of entries of schemaNames found in the
\* Definitions Table, and that number is the count of the final summary.
C7_DistinctFilesEqualFound ==
    Finished =>
        /\ Cardinality(written) = Cardinality(FoundIdx(Len(Requested)))
        /\ stdout[Len(stdout)].kind = "summary"
        /\ stdout[Len(stdout)].extracted = Cardinality(FoundIdx(Len(Requested)))

\* C7 (amended): after a completed run the number of file writes (success
\* notices) equals the number of entries of schemaNames found in the
\* Definitions Table, and that number is the count of the final summary; the
\* distinct files written are the transformed names of the found entries,
\* at most that many, and exactly that many when those transformed names are
\* pairwise distinct.
C7_WritesEqualFound ==
    Finished =>
        LET found == FoundIdx(Len(Requested))
        IN  /\ Cardinality(LinesOfKind(stdout, "extracted")) = Cardinality(found)
            /\ stdout[Len(stdout)].kind = "summary"
            /\ stdout[Len(stdout)].extracted = Cardinality(found)
            /\ written = FoundFiles(Len(Requested))
            /\ Cardinality(written) <= Cardinality(found)
            /\ (\A i, j \in found :
                   output_file(Requested[i]) = output_file(Requested[j]) => i = j)
                 => Cardinality(written) = Cardinality(found)

C7_Witness ==
    /\ Finished
    /\ Cardinality(FoundIdx(Len(Requested))) = 3
    /\ Cardinality(written) = 2
    /\ stdout[Len(stdout)].extracted = 3

\* C8: a requested name absent from the Definitions Table gets a warning, no
\* file and no count, and does not stop the run: the later names are still
\* processed, the summary is emitted and the exit status is zero, provided
\* the source document was found.
C8_MissingSkipped ==
    /\ swaggerExists => exitStatus \in {Running, 0}
    /\ (swaggerExists /\ exitStatus = Running) =>
          pc \in {"main", "load", "mkdir", "loop"}
    /\ InLoop =>
          /\ stderr = WarningsFor(idx - 1)
          /\ extracted = Cardinality(FoundIdx(idx - 1))
          /\ written = FoundFiles(idx - 1)
          /\ \A f \in DOMAIN files \ written :
                f \in DOMAIN fs0.files /\ files[f] = fs0.files[f]
    /\ Finished =>
          /\ idx = Len(Requested) + 1
          /\ Len(stdout) = Cardinality(FoundIdx(Len(Requested))) + 1
          /\ stdout[Len(stdout)] =
                [kind |-> "summary",
                 extracted |-> Cardinality(FoundIdx(Len(Requested)))]

C8_Witness ==
    /\ Finished
    /\ Len(Requested) = 3
    /\ Requested[1] \notin DOMAIN Table
    /\ Requested[2] \in DOMAIN Table
    /\ Requested[3] \notin DOMAIN Table
    /\ Len(stderr) = 2
    /\ extracted = 1
    /\ written = { output_file(Requested[2]) }

\* C9: when the source document does not exist the program exits with a
\* non-zero status after an error message, never enters extract_schemas and
\* leaves the file system as it was (no file written, no directory created).
C9_MissingSourceAborts ==
    ~swaggerExists =>
        /\ pc \in {"main", "exit"}
        /\ dirExists = fs0.dir
        /\ files = fs0.files
        /\ written = {}
        /\ stdout = << >>
        /\ pc = "main" => exitStatus = Running /\ stderr = << >>
        /\ pc = "exit" => exitStatus # Running /\ exitStatus # 0
                          /\ stderr = << [kind |-> "error"] >>

C9_Witness ==
    /\ ~swaggerExists
    /\ pc = "exit"
    /\ exitStatus = 1
    /\ ~dirExists
    /\ ~schemas.none

\* C10: the names are processed in the given order, each matched schema's
\* file written before the next name is looked at; so every file written
\* holds the conversion of the last entry processed so far that is in the
\* Definitions Table and transforms to that file's name, while every matched
\* entry, overwriting or not, increments the count.
C10_LastWriteWins ==
    InLoop =>
        /\ idx \in 1..(Len(Requested) + 1)
        /\ Len(stderr) + Cardinality(LinesOfKind(stdout, "extracted")) = idx - 1
        /\ SubSeq(stdout, 1, Cardinality(FoundIdx(idx - 1))) = NoticesFor(idx - 1)
        /\ extracted = Cardinality(FoundIdx(idx - 1))
        /\ \A f \in written :
              LET last == Max({ i \in FoundIdx(idx - 1) :
                                   output_file(Requested[i]) = f })
              IN  files[f] = json_dump(
                      convert_openapi_to_jsonschema(Table[Requested[last]]))

C10_Witness ==
    /\ Finished
    /\ ~schemas.none
    /\ schemas.list = << n_account, n_filterV2, n_Account >>
    /\ NamePool \subseteq DOMAIN Table
    /\ Table[n_account] # Table[n_Account]
    /\ DOMAIN fs0.files # {}
    /\ extracted = 3
    /\ files[output_file(n_account)] =
          json_dump(convert_openapi_to_jsonschema(Table[n_Account]))

=============================================================================
